---- MODULE Spec2Model ----
(***************************************************************************)
(* A model of get_fasta.py: the option handling of main, parse_range,      *)
(* load_labels, the matchers, the four search strategies (one action per   *)
(* iteration of their scan loops) and FastaWriter.                         *)
(*                                                                         *)
(* Strings are sequences of one-character strings, so that slicing,        *)
(* searching and concatenation are computed as the code computes them.     *)
(* Python's None is the empty tuple <<>> and a present integer n is <<n>>. *)
(* The program is Python 2 (file(), with_statement): an integer compared   *)
(* with None by <= is never smaller than it.                               *)
(***************************************************************************)
EXTENDS Integers, Sequences, FiniteSets, TLC

VARIABLES
    args,      \* the positional arguments left by the option parser
    options,   \* the option flags
    fs,        \* the file named by args[0]: readable or not, and its lines
    stdin,     \* the records the reader will yield, in order
    pulled,    \* how many records the reader has yielded so far
    drained,   \* TRUE once main has read the rest of stdin (-p)
    stdout,    \* the characters written to stdout so far
    pc,        \* "main", "scan", "returned" or "exit"
    s,         \* the strategy object built by main
    found,     \* local `found` of SingleLabelSearch.scan / MultipleLabelSearch.scan
    pos,       \* local `pos` of IndexSearch.scan / RangeSearch.scan
    ret,       \* the value scan returned (meaningful once pc is past "scan")
    status,    \* "running", "ok", or the message given to exit()
    setorder,  \* the order in which the label set was iterated, <<>> before that
    first      \* <<stdout, status>> at the end of an earlier run on the same
               \* command line and input, <<>> when there was none

vars == <<args, options, fs, stdin, pulled, drained, stdout, pc, s, found, pos, ret, status,
          setorder, first>>

(***************************************************************************)
(* Bounds of the model.                                                    *)
(***************************************************************************)
MaxStream == 3    \* longest input stream, in records
MaxLabels == 2    \* most lines of a label file
MaxSpecLen == 4   \* longest text after '@' given to parse_range on its own

None == <<>>
Some(n) == <<n>>

NL == "\n"

(***************************************************************************)
(* Sequence helpers.                                                       *)
(***************************************************************************)
\* a fault of Del: the slice `del l[idx:]`
Del_Slice(l, idx) == SubSeq(l, 1, idx - 1)

\* Python's `del l[idx]`, idx counted from 1 here
Del(l, idx) == SubSeq(l, 1, idx - 1) \o SubSeq(l, idx + 1, Len(l))

\* a fault of All: an empty list not taken as all true
All_NonEmpty(l) == l # <<>> /\ \A i \in 1..Len(l) : l[i]

\* Python's all(l) over a list of booleans
All(l) == \A i \in 1..Len(l) : l[i]

\* all the sequences over S of length at most n
SeqsUpTo(S, n) == UNION {[1..k -> S] : k \in 0..n}

\* the first index of `value` (from 0, Python's convention) at which `pat`
\* occurs, or -1: str.find
Find(value, pat) ==
    LET hits == {i \in 0..(Len(value) - Len(pat)) : SubSeq(value, i + 1, i + Len(pat)) = pat}
    IN  IF hits = {} THEN -1 ELSE CHOOSE i \in hits : \A j \in hits : i <= j

(***************************************************************************)
(* Matchers.                                                               *)
(***************************************************************************)
\* the characters Python's \w accepts, among those the model uses
IsWordChar(c) == c \in {"a", "b", "c", "0", "1", "2", "3", "4", "5", "6", "7", "8", "9", "_"}

\* a fault of IdCut: the value handed on uncut
IdCut_Whole(value) == value

\* id_filter's f: value cut at the first space or tab
IdCut(value) ==
    LET seps == {i \in 1..Len(value) : value[i] \in {" ", "\t"}}
    IN  IF seps = {} THEN value
        ELSE SubSeq(value, 1, (CHOOSE i \in seps : \A j \in seps : i <= j) - 1)

\* a fault of ExactMatch: value.startswith(text)
ExactMatch_Prefix(text, value) ==
    Len(text) <= Len(value) /\ SubSeq(value, 1, Len(text)) = text

\* ExactMatch.__call__
ExactMatch(text, value) == text = value

\* rx.search(value) is not None, for a pattern rx that is a literal text
\* (no metacharacter), optionally wrapped as (^|\W)rx(\W|$)
RegularExpressionMatch(rx, value) ==
    \E i \in 0..(Len(value) - Len(rx.text)) :
        /\ SubSeq(value, i + 1, i + Len(rx.text)) = rx.text
        /\ rx.word =>
            /\ (i = 0 \/ ~IsWordChar(value[i]))
            /\ (i + Len(rx.text) = Len(value) \/ ~IsWordChar(value[i + Len(rx.text) + 1]))

\* a matcher object built by main as fc(mc(l))
Matcher(mc, id_only, l) ==
    [mc |-> IF mc = "ExactMatch" THEN "ExactMatch" ELSE "RegularExpressionMatch",
     text |-> l,
     word |-> (mc = "WordRegularExpressionMatch"),
     id_only |-> id_only]

\* calling a matcher on a header
Match(m, header) ==
    LET value == IF m.id_only THEN IdCut(header) ELSE header
    IN  IF m.mc = "ExactMatch" THEN ExactMatch(m.text, value)
        ELSE RegularExpressionMatch(m, value)

(***************************************************************************)
(* FastaWriter.write: the characters it appends to stdout.                 *)
(***************************************************************************)
RECURSIVE WriteLines(_)
WriteLines(lines) ==
    IF lines = <<>> THEN <<>>
    ELSE Head(lines) \o <<NL>> \o WriteLines(Tail(lines))

\* a fault of FastaWriter.write: the header printed whatever print_headers
FastaWriterWrite_AlwaysHeader(print_headers, header, lines) ==
    <<">">> \o header \o <<NL>> \o WriteLines(lines)

FastaWriterWrite(print_headers, header, lines) ==
    (IF print_headers THEN <<">">> \o header \o <<NL>> ELSE <<>>) \o WriteLines(lines)

(***************************************************************************)
(* Selection argument: is_range and parse_range.                           *)
(***************************************************************************)
DigitChars == {"0", "1", "2", "3", "4", "5", "6", "7", "8", "9"}

DigitVal(c) ==
    CASE c = "0" -> 0 [] c = "1" -> 1 [] c = "2" -> 2 [] c = "3" -> 3 [] c = "4" -> 4
      [] c = "5" -> 5 [] c = "6" -> 6 [] c = "7" -> 7 [] c = "8" -> 8 [] c = "9" -> 9

RECURSIVE DecValue(_)
DecValue(ds) ==
    IF ds = <<>> THEN 0
    ELSE 10 * DecValue(SubSeq(ds, 1, Len(ds) - 1)) + DigitVal(ds[Len(ds)])

\* Python's int(text) on a text without whitespace or underscore: an optional
\* sign and at least one decimal digit; None stands for ValueError
PyInt(text) ==
    LET signed == text # <<>> /\ text[1] \in {"+", "-"}
        ds == IF signed THEN Tail(text) ELSE text
    IN  IF ds = <<>> \/ (\E i \in 1..Len(ds) : ds[i] \notin DigitChars) THEN None
        ELSE Some(IF signed /\ text[1] = "-" THEN 0 - DecValue(ds) ELSE DecValue(ds))

\* a fault of StopLeStart: `stop < start`
StopLeStart_Strict(stop, start) == IF start = None THEN FALSE ELSE stop < start[1]

\* Python 2's `stop <= start`, where start may be None: None orders before
\* every integer, so the comparison is false
StopLeStart(stop, start) == IF start = None THEN FALSE ELSE stop <= start[1]

is_range(value) == Len(value) # 0 /\ value[1] = "@"

\* <<"idx", n>>, <<"range", start, stop>>, or <<"exit", message>> where the
\* code calls exit()
parse_range(value0) ==
    LET value == SubSeq(value0, 2, Len(value0))
        idx == Find(value, <<":">>)
    IN  IF idx = -1
        THEN LET n == PyInt(value)
             IN  IF n = None \/ n[1] < 0 THEN <<"exit", "Invalid index">>
                 ELSE <<"idx", n[1]>>
        ELSE LET startText == SubSeq(value, 1, idx)
                 start == IF Len(startText) = 0 THEN None ELSE PyInt(startText)
                 startBad == Len(startText) # 0 /\ (start = None \/ start[1] < 0)
                 stopText == SubSeq(value, idx + 2, Len(value))
                 stop == IF Len(stopText) = 0 THEN None ELSE PyInt(stopText)
                 stopBad == Len(stopText) # 0 /\ (stop = None \/ StopLeStart(stop[1], start))
             IN  IF startBad THEN <<"exit", "Invalid start index">>
                 ELSE IF stopBad THEN <<"exit", "Invalid stop index">>
                 ELSE <<"range", start, stop>>

(***************************************************************************)
(* load_labels.                                                            *)
(***************************************************************************)
\* safe_rstrip: the line without its trailing line terminator
RECURSIVE safe_rstrip(_)
safe_rstrip(line) ==
    IF line # <<>> /\ line[Len(line)] \in {"\n", "\r"}
    THEN safe_rstrip(SubSeq(line, 1, Len(line) - 1))
    ELSE line

\* a fault of load_labels: a repeated label added to the set without complaint
load_labels_NoDuplicateCheck(file) ==
    IF ~file.readable THEN <<"exit", "Error reading from file">>
    ELSE LET label == [i \in 1..Len(file.lines) |-> safe_rstrip(file.lines[i])]
         IN  IF Len(label) = 0 THEN <<"exit", "No label in file">>
             ELSE <<"labels", {label[i] : i \in 1..Len(label)}>>

\* <<"labels", set>> or <<"exit", message>>
load_labels(file) ==
    IF ~file.readable THEN <<"exit", "Error reading from file">>
    ELSE LET label == [i \in 1..Len(file.lines) |-> safe_rstrip(file.lines[i])]
         IN  IF \E i, j \in 1..Len(label) : i < j /\ label[i] = label[j]
             THEN <<"exit", "Duplicated label">>
             ELSE IF Len(label) = 0 THEN <<"exit", "No label in file">>
             ELSE <<"labels", {label[i] : i \in 1..Len(label)}>>

\* a fault of SetOrders: the order drawn afresh in every run (randomised hashes)
SetOrders_Randomised(S, observed) ==
    {f \in [1..Cardinality(S) -> S] : \A i, j \in 1..Cardinality(S) : f[i] = f[j] => i = j}

\* the orders in which the label set S may be iterated, `observed` being the
\* order an earlier run on the same file iterated it in, if any: the order
\* is not specified, but it is a function of the set and of how it was built
SetOrders(S, observed) ==
    IF observed # <<>> THEN {observed}
    ELSE {f \in [1..Cardinality(S) -> S] : \A i, j \in 1..Cardinality(S) : f[i] = f[j] => i = j}

\* the orders in which a set can be iterated
Orderings(S) ==
    {f \in [1..Cardinality(S) -> S] : \A i, j \in 1..Cardinality(S) : f[i] = f[j] => i = j}

(***************************************************************************)
(* The scan loops, one operator per loop body and per loop exit.           *)
(***************************************************************************)
\* the index (from 1) of the first matcher of `matches` accepting `header`,
\* 0 when none does: where the inner loop of MultipleLabelSearch.scan breaks
FirstMatch(matches, header) ==
    LET hits == {i \in 1..Len(matches) : Match(matches[i], header)}
    IN  IF hits = {} THEN 0 ELSE CHOOSE i \in hits : \A j \in hits : i <= j

\* a fault of MultiWrites: no break in the inner loop, one write per matcher
\* accepting the header
MultiWrites_NoBreak(matches, header) ==
    Cardinality({i \in 1..Len(matches) : Match(matches[i], header)})

\* MultipleLabelSearch.scan, how many times the inner loop writes the record:
\* it breaks at the first matcher accepting the header
MultiWrites(matches, header) == IF FirstMatch(matches, header) = 0 THEN 0 ELSE 1

\* a fault of MultiBreak: the scan never stopped early
MultiBreak_Never(matches) == FALSE

\* MultipleLabelSearch.scan, the condition of the break of the outer loop
MultiBreak(matches) == Len(matches) = 0

\* a fault of SingleBreak: no break after a match
SingleBreak_Never(self) == FALSE

\* a fault of SingleBreak: the break taken whatever reuse_match
SingleBreak_Always(self) == TRUE

\* SingleLabelSearch.scan, the condition of the break after a match
SingleBreak(self) == ~self.reuse_match

\* a fault of IndexHit: positions counted from 1
IndexHit_OneBased(self, p) == p + 1 = self.idx

\* IndexSearch.scan, the test of the position counted so far
IndexHit(self, p) == p = self.idx

\* a fault of Missing: ignore_missing not consulted
Missing_NoTolerance(r, ignore_missing) == ~r

\* main, the test that raises the missing-block error once scan returned r
Missing(r, ignore_missing) == ~r /\ ~ignore_missing

\* a fault of RangeBreak: the record at position stop let through
RangeBreak_Late(self, p) == self.stop # None /\ p > self.stop[1]

\* RangeSearch.scan, the condition of the break
RangeBreak(self, p) == self.stop # None /\ p >= self.stop[1]

\* a fault of RangeWrite: start exclusive
RangeWrite_StartExclusive(self, p) == self.start = None \/ p > self.start[1]

\* RangeSearch.scan, the condition of the write (reached when no break)
RangeWrite(self, p) == self.start = None \/ p >= self.start[1]

\* a fault of RangeElse: the stream required to reach position stop
RangeElse_StopOffByOne(self, p) ==
    IF self.start # None /\ p < self.start[1] THEN FALSE
    ELSE IF self.stop # None /\ p < self.stop[1] THEN FALSE
    ELSE TRUE

\* RangeSearch.scan, the else branch of the loop: the value returned when the
\* reader is exhausted with the last position p (-1 when there was no record)
RangeElse(self, p) ==
    IF self.start # None /\ p < self.start[1] THEN FALSE
    ELSE IF self.stop # None /\ p < self.stop[1] - 1 THEN FALSE
    ELSE TRUE

\* RangeSearch.scan as a whole, on the records `recs` still to come after
\* position p: what it writes and what it returns
RECURSIVE RangeScan(_, _, _)
RangeScan(self, recs, p) ==
    IF recs = <<>> THEN [stdout |-> <<>>, ret |-> RangeElse(self, p)]
    ELSE IF RangeBreak(self, p + 1) THEN [stdout |-> <<>>, ret |-> TRUE]
    ELSE LET rest == RangeScan(self, Tail(recs), p + 1)
         IN  [stdout |-> (IF RangeWrite(self, p + 1)
                          THEN FastaWriterWrite(self.writer.print_headers,
                                                Head(recs).header, Head(recs).lines)
                          ELSE <<>>) \o rest.stdout,
              ret |-> rest.ret]

\* MultipleLabelSearch.scan as a whole, on the records `recs` still to come,
\* with the matchers `matches` live and the marks `marks` so far: what it
\* writes and what it returns
RECURSIVE MultiScan(_, _, _, _, _)
MultiScan(matches, marks, reuse_matches, print_headers, recs) ==
    IF recs = <<>> THEN [stdout |-> <<>>, ret |-> All(marks)]
    ELSE LET header == Head(recs).header
             idx == FirstMatch(matches, header)
             written == IF MultiWrites(matches, header) = 0 THEN <<>>
                        ELSE FastaWriterWrite(print_headers, header, Head(recs).lines)
             matches1 == IF idx = 0 \/ reuse_matches THEN matches ELSE Del(matches, idx)
             marks1 == IF idx = 0 THEN marks
                       ELSE IF reuse_matches THEN [marks EXCEPT ![idx] = TRUE]
                       ELSE Del(marks, idx)
         IN  IF MultiBreak(matches1) THEN [stdout |-> written, ret |-> All(marks1)]
             ELSE LET rest == MultiScan(matches1, marks1, reuse_matches, print_headers,
                                        Tail(recs))
                  IN  [stdout |-> written \o rest.stdout, ret |-> rest.ret]

(***************************************************************************)
(* The inputs the model enumerates.                                        *)
(***************************************************************************)
Rec(header, lines) == [header |-> header, lines |-> lines]

Records ==
    { Rec(<<"a", " ", "b">>, << <<"A", "C">> >>),
      Rec(<<"a", "b">>, << <<"G">>, <<"T">> >>) }

\* labels and patterns given on the command line or in the label file
Labels == { <<"a">>, <<"a", "b">>, <<"a", " ", "b">> }

Digit(n) ==
    << CASE n = 0 -> "0" [] n = 1 -> "1" [] n = 2 -> "2" [] n = 3 -> "3" [] n = 4 -> "4"
         [] n = 5 -> "5" [] n = 6 -> "6" [] n = 7 -> "7" [] n = 8 -> "8" [] n = 9 -> "9" >>

\* '@IDX' and '@START:STOP' arguments, well formed or not
RangeArgs ==
    {<<"@">> \o Digit(n) : n \in 0..MaxStream}
    \cup {<<"@">> \o st \o <<":">> \o sp :
            st \in {<<>>} \cup {Digit(n) : n \in 0..MaxStream},
            sp \in {<<>>} \cup {Digit(n) : n \in 0..(MaxStream + 1)}}
    \cup { <<"@">>, <<"@", "-", "1">>, <<"@", "x", ":">> }

NoFile == [readable |-> FALSE, lines |-> <<>>]

Files ==
    {NoFile} \cup
    {[readable |-> TRUE, lines |-> [i \in 1..Len(ls) |-> ls[i] \o <<NL>>]] :
        ls \in SeqsUpTo(Labels, MaxLabels)}

Options(id_only, regexp, word_regexp, from_file, common) ==
    [id_only |-> id_only, regexp |-> regexp, word_regexp |-> word_regexp,
     from_file |-> from_file, no_headers |-> common[1], ignore_missing |-> common[2],
     read_all_input_file |-> common[3]]

\* <<no_headers, ignore_missing, read_all_input_file>>
Common ==
    { <<FALSE, FALSE, FALSE>>, <<TRUE, FALSE, FALSE>>, <<FALSE, TRUE, TRUE>>,
      <<FALSE, FALSE, TRUE>> }
Defaults == <<FALSE, FALSE, FALSE>>

Config(a, o, f) == [args |-> a, options |-> o, fs |-> f]

\* one family of command lines per path through main
Configs ==
    \* a wrong number of arguments
    {Config(a, Options(FALSE, FALSE, FALSE, FALSE, Defaults), NoFile) :
        a \in {<<>>, << <<"a">>, <<"b">> >>}}
    \* conflicting options
    \cup {Config(<<a>>, Options(FALSE, TRUE, w, FALSE, Defaults), NoFile) :
        a \in {<<"a">>, <<"@", "0">>}, w \in BOOLEAN}
    \cup {Config(<<a>>, Options(FALSE, FALSE, TRUE, FALSE, Defaults), NoFile) :
        a \in {<<"@", "0">>}}
    \* an index or a range
    \cup {Config(<<a>>, Options(FALSE, FALSE, FALSE, FALSE, c), NoFile) :
        a \in RangeArgs, c \in Common}
    \* a single label or pattern
    \cup {Config(<<a>>, Options(i, m[1], m[2], FALSE, c), NoFile) :
        a \in Labels \cup {<<>>}, i \in BOOLEAN,
        m \in {<<FALSE, FALSE>>, <<TRUE, FALSE>>, <<FALSE, TRUE>>}, c \in Common}
    \* labels or patterns from a file
    \cup {Config(<< <<"f">> >>, Options(i, m[1], m[2], TRUE, c), f) :
        i \in BOOLEAN, m \in {<<FALSE, FALSE>>, <<TRUE, FALSE>>, <<FALSE, TRUE>>},
        c \in Common, f \in Files}

(***************************************************************************)
(* The program.                                                            *)
(***************************************************************************)
NoStrategy == [type |-> "none"]

Init ==
    /\ \E c \in Configs : args = c.args /\ options = c.options /\ fs = c.fs
    /\ stdin \in SeqsUpTo(Records, MaxStream)
    /\ pulled = 0
    /\ drained = FALSE
    /\ stdout = <<>>
    /\ pc = "main"
    /\ s = NoStrategy
    /\ found = FALSE
    /\ pos = 0
    /\ ret = FALSE
    /\ status = "running"
    /\ setorder = <<>>
    /\ first = <<>>

\* exit(message) in main or in a function it calls, before the scan
ExitWith(message) ==
    /\ pc' = "exit"
    /\ status' = message
    /\ UNCHANGED <<s, found, pos, setorder>>

\* s = <strategy>; s.scan(r) entered: its locals are initialised
StartScan(strategy, found0, pos0, order) ==
    /\ pc' = "scan"
    /\ setorder' = order
    /\ s' = strategy
    /\ found' = found0
    /\ pos' = pos0
    /\ status' = status

\* main, from the option checks to the call of s.scan
Main ==
    /\ pc = "main"
    /\ UNCHANGED <<args, options, fs, stdin, first, pulled, drained, stdout, ret>>
    /\ LET w == [print_headers |-> ~options.no_headers]
       IN  IF Len(args) # 1 THEN ExitWith("Unexpected argument number.")
           ELSE IF options.regexp /\ options.word_regexp
           THEN ExitWith("Cannot use --regexp and --word-regexp together.")
           ELSE IF is_range(args[1]) /\ (options.regexp \/ options.word_regexp)
           THEN ExitWith("Cannot use --regexp or --word-regexp with indexes.")
           ELSE IF is_range(args[1])
           THEN LET spec == parse_range(args[1])
                IN  IF spec[1] = "exit" THEN ExitWith(spec[2])
                    ELSE IF spec[1] = "idx"
                    THEN StartScan([type |-> "IndexSearch", idx |-> spec[2], writer |-> w],
                                   FALSE, 0, setorder)
                    ELSE StartScan([type |-> "RangeSearch", start |-> spec[2],
                                    stop |-> spec[3], writer |-> w], FALSE, 0 - 1, setorder)
           ELSE LET mc == IF options.regexp THEN "RegularExpressionMatch"
                          ELSE IF options.word_regexp THEN "WordRegularExpressionMatch"
                          ELSE "ExactMatch"
                    reuse_match == options.regexp \/ options.word_regexp
                IN  IF options.from_file
                    THEN LET l == load_labels(fs)
                         IN  IF l[1] = "exit" THEN ExitWith(l[2])
                             ELSE \E order \in SetOrders(l[2], setorder) :
                                    StartScan(
                                        [type |-> "MultipleLabelSearch",
                                         matches |-> [i \in 1..Len(order) |->
                                                        Matcher(mc, options.id_only, order[i])],
                                         reuse_matches |-> reuse_match, writer |-> w],
                                        [i \in 1..Len(order) |-> FALSE], 0, order)
                    ELSE StartScan([type |-> "SingleLabelSearch",
                                    match |-> Matcher(mc, options.id_only, args[1]),
                                    reuse_match |-> reuse_match, writer |-> w], FALSE, 0,
                                   setorder)

\* the record the reader yields next
NextRecord == stdin[pulled + 1]

\* writer.write(header, lines) on the record just pulled
Written == stdout \o FastaWriterWrite(s.writer.print_headers, NextRecord.header, NextRecord.lines)

\* stdout after k calls of writer.write on the record just pulled
RECURSIVE WrittenTimes(_)
WrittenTimes(k) ==
    IF k = 0 THEN stdout
    ELSE WrittenTimes(k - 1)
            \o FastaWriterWrite(s.writer.print_headers, NextRecord.header, NextRecord.lines)

\* scan returns value v
Return(v) == pc' = "returned" /\ ret' = v

Continue == pc' = "scan" /\ ret' = ret

\* SingleLabelSearch.scan: one iteration of the loop
SingleLabelSearchStep ==
    /\ pc = "scan" /\ s.type = "SingleLabelSearch"
    /\ pulled < Len(stdin)
    /\ pulled' = pulled + 1
    /\ IF Match(s.match, NextRecord.header)
       THEN /\ stdout' = Written
            /\ found' = TRUE
            /\ IF SingleBreak(s) THEN Return(TRUE) ELSE Continue
       ELSE /\ UNCHANGED <<stdout, found>>
            /\ Continue
    /\ UNCHANGED <<args, options, fs, stdin, first, drained, s, pos, status, setorder>>

\* SingleLabelSearch.scan: the reader is exhausted
SingleLabelSearchEnd ==
    /\ pc = "scan" /\ s.type = "SingleLabelSearch"
    /\ pulled = Len(stdin)
    /\ Return(found)
    /\ UNCHANGED <<args, options, fs, stdin, first, pulled, drained, stdout, s, found, pos, status, setorder>>

\* MultipleLabelSearch.scan: one iteration of the outer loop
MultipleLabelSearchStep ==
    /\ pc = "scan" /\ s.type = "MultipleLabelSearch"
    /\ pulled < Len(stdin)
    /\ pulled' = pulled + 1
    /\ stdout' = WrittenTimes(MultiWrites(s.matches, NextRecord.header))
    /\ LET idx == FirstMatch(s.matches, NextRecord.header)
       IN  IF idx = 0 THEN UNCHANGED <<s, found>>
           ELSE IF s.reuse_matches
           THEN /\ found' = [found EXCEPT ![idx] = TRUE]
                /\ s' = s
           ELSE /\ s' = [s EXCEPT !.matches = Del(@, idx)]
                /\ found' = Del(found, idx)
    /\ IF MultiBreak(s'.matches) THEN Return(All(found')) ELSE Continue
    /\ UNCHANGED <<args, options, fs, stdin, first, drained, pos, status, setorder>>

\* MultipleLabelSearch.scan: the reader is exhausted
MultipleLabelSearchEnd ==
    /\ pc = "scan" /\ s.type = "MultipleLabelSearch"
    /\ pulled = Len(stdin)
    /\ Return(All(found))
    /\ UNCHANGED <<args, options, fs, stdin, first, pulled, drained, stdout, s, found, pos, status, setorder>>

\* IndexSearch.scan: one iteration of the loop
IndexSearchStep ==
    /\ pc = "scan" /\ s.type = "IndexSearch"
    /\ pulled < Len(stdin)
    /\ pulled' = pulled + 1
    /\ IF IndexHit(s, pos)
       THEN /\ stdout' = Written
            /\ pos' = pos
            /\ Return(TRUE)
       ELSE /\ stdout' = stdout
            /\ pos' = pos + 1
            /\ Continue
    /\ UNCHANGED <<args, options, fs, stdin, first, drained, s, found, status, setorder>>

\* IndexSearch.scan: the reader is exhausted, the else branch of the loop
IndexSearchEnd ==
    /\ pc = "scan" /\ s.type = "IndexSearch"
    /\ pulled = Len(stdin)
    /\ Return(FALSE)
    /\ UNCHANGED <<args, options, fs, stdin, first, pulled, drained, stdout, s, found, pos, status, setorder>>

\* RangeSearch.scan: one iteration of the loop
RangeSearchStep ==
    /\ pc = "scan" /\ s.type = "RangeSearch"
    /\ pulled < Len(stdin)
    /\ pulled' = pulled + 1
    /\ pos' = pos + 1
    /\ IF RangeBreak(s, pos')
       THEN /\ stdout' = stdout
            /\ Return(TRUE)
       ELSE /\ stdout' = IF RangeWrite(s, pos') THEN Written ELSE stdout
            /\ Continue
    /\ UNCHANGED <<args, options, fs, stdin, first, drained, s, found, status, setorder>>

\* RangeSearch.scan: the reader is exhausted, the else branch of the loop
RangeSearchEnd ==
    /\ pc = "scan" /\ s.type = "RangeSearch"
    /\ pulled = Len(stdin)
    /\ Return(RangeElse(s, pos))
    /\ UNCHANGED <<args, options, fs, stdin, first, pulled, drained, stdout, s, found, pos, status, setorder>>

\* main, after s.scan returned: the missing-block error, else the optional
\* reading of the rest of stdin
Finish ==
    /\ pc = "returned"
    /\ pc' = "exit"
    /\ IF Missing(ret, options.ignore_missing)
       THEN /\ status' = "Some FASTA blocks are missing."
            /\ drained' = drained
       ELSE /\ status' = "ok"
            /\ drained' = options.read_all_input_file
    /\ UNCHANGED <<args, options, fs, stdin, first, pulled, stdout, s, found, pos, ret, setorder>>

Next ==
    \/ Main
    \/ SingleLabelSearchStep
    \/ SingleLabelSearchEnd
    \/ MultipleLabelSearchStep
    \/ MultipleLabelSearchEnd
    \/ IndexSearchStep
    \/ IndexSearchEnd
    \/ RangeSearchStep
    \/ RangeSearchEnd
    \/ Finish

Spec == Init /\ [][Next]_vars

(***************************************************************************)
(* The program run a second time on the same command line, label file and  *)
(* input, once the first run has ended.                                    *)
(***************************************************************************)
Rerun ==
    /\ pc = "exit" /\ first = <<>>
    /\ first' = <<stdout, status>>
    /\ pc' = "main"
    /\ pulled' = 0
    /\ drained' = FALSE
    /\ stdout' = <<>>
    /\ s' = NoStrategy
    /\ found' = FALSE
    /\ pos' = 0
    /\ ret' = FALSE
    /\ status' = "running"
    /\ UNCHANGED <<args, options, fs, stdin, setorder>>

NextTwice ==
    \/ Main
    \/ SingleLabelSearchStep
    \/ SingleLabelSearchEnd
    \/ MultipleLabelSearchStep
    \/ MultipleLabelSearchEnd
    \/ IndexSearchStep
    \/ IndexSearchEnd
    \/ RangeSearchStep
    \/ RangeSearchEnd
    \/ Finish
    \/ Rerun

SpecTwice == Init /\ [][NextTwice]_vars

(***************************************************************************)
(* parse_range on its own, over every text of at most MaxSpecLen           *)
(* characters after the '@'.                                               *)
(***************************************************************************)
SpecChars == {"0", "1", "2", "-", ":", "x"}

ParseInit ==
    /\ \E body \in SeqsUpTo(SpecChars, MaxSpecLen) : args = << <<"@">> \o body >>
    /\ options = Options(FALSE, FALSE, FALSE, FALSE, Defaults)
    /\ fs = NoFile
    /\ stdin = <<>>
    /\ pulled = 0
    /\ drained = FALSE
    /\ stdout = <<>>
    /\ pc = "parse"
    /\ s = NoStrategy
    /\ found = FALSE
    /\ pos = 0
    /\ ret = FALSE
    /\ status = "running"
    /\ setorder = <<>>
    /\ first = <<>>

\* spec = parse_range(args[0])
ParseStep ==
    /\ pc = "parse"
    /\ pc' = "parsed"
    /\ s' = [type |-> "spec", spec |-> parse_range(args[1])]
    /\ UNCHANGED <<args, options, fs, stdin, first, pulled, drained, stdout, found, pos, ret, status, setorder>>

ParseNext == ParseStep

SpecParse == ParseInit /\ [][ParseNext]_vars

(***************************************************************************)
(* Vocabulary of the properties.                                           *)
(***************************************************************************)
AfterScan(type) == pc = "returned" /\ s.type = type

\* what the writer prints for the records at the positions of S (counted
\* from 1), in stream order, each once
RECURSIVE EmittedFrom(_, _)
EmittedFrom(i, S) ==
    IF i > Len(stdin) THEN <<>>
    ELSE (IF i \in S
          THEN FastaWriterWrite(~options.no_headers, stdin[i].header, stdin[i].lines)
          ELSE <<>>) \o EmittedFrom(i + 1, S)

Emitted(S) == EmittedFrom(1, S)

\* the positions (from 1) of the records whose label matcher m accepts
Accepted(m) == {i \in 1..Len(stdin) : Match(m, stdin[i].header)}

\* the matchers MultipleLabelSearch was constructed with, whatever their order
RequestedMatchers ==
    {Matcher(IF options.regexp THEN "RegularExpressionMatch"
             ELSE IF options.word_regexp THEN "WordRegularExpressionMatch"
             ELSE "ExactMatch", options.id_only, l) : l \in load_labels(fs)[2]}

(***************************************************************************)
(* C1. MultipleLabelSearch.scan returns true iff every matcher it was      *)
(* constructed with accepts the label of at least one record of the        *)
(* stream, with reuse_matches false and with reuse_matches true.           *)
(* Stated as the claim has it; the code marks only the first matcher       *)
(* accepting a record.                                                     *)
(***************************************************************************)
C1_TrueIffEveryTargetMatched ==
    AfterScan("MultipleLabelSearch") =>
        (ret <=> \A m \in RequestedMatchers : Accepted(m) # {})

(***************************************************************************)
(* C2. RangeSearch.scan with an explicit start s and a stop e (finite or   *)
(* omitted) on n records returns false exactly when n <= s or, e being     *)
(* finite, n < e; when n <= s it has written nothing.                      *)
(***************************************************************************)
C2_RangeResult ==
    (AfterScan("RangeSearch") /\ s.start # None) =>
        LET n == Len(stdin)
        IN  /\ ~ret <=> (n <= s.start[1] \/ (s.stop # None /\ n < s.stop[1]))
            /\ n <= s.start[1] => stdout = <<>>

\* a start beyond the end of a non-empty stream, no stop: nothing, false
C2_Witness ==
    /\ AfterScan("RangeSearch") /\ s.start # None /\ s.stop = None
    /\ Len(stdin) > 0 /\ Len(stdin) <= s.start[1]
    /\ ~ret /\ stdout = <<>>

(***************************************************************************)
(* C3. A missing START implies 0: RangeSearch with start omitted writes    *)
(* the same and returns the same as RangeSearch with start = 0, for every  *)
(* stream and every stop. Stated as the claim has it; on the empty stream  *)
(* the code returns true for a missing start and false for start 0.        *)
(***************************************************************************)
C3_MissingStartIsZero ==
    (AfterScan("RangeSearch") /\ s.start = None) =>
        [stdout |-> stdout, ret |-> ret] = RangeScan([s EXCEPT !.start = Some(0)], stdin, 0 - 1)

(***************************************************************************)
(* C4. RangeSearch.scan writes exactly the records at the positions p with *)
(* start <= p < stop (a missing start being 0, a missing stop the end of   *)
(* the stream), each once and in stream order, at every point of the scan  *)
(* among the records pulled so far and in full once it has returned; it    *)
(* returns true when the stream reaches beyond start and up to stop.       *)
(***************************************************************************)
InRange(p) ==
    /\ (s.start = None \/ p >= s.start[1])
    /\ (s.stop = None \/ p < s.stop[1])

C4_RangeWrites ==
    (s.type = "RangeSearch") =>
        /\ stdout = Emitted({i \in 1..pulled : InRange(i - 1)})
        /\ pc = "returned" =>
            /\ stdout = Emitted({i \in 1..Len(stdin) : InRange(i - 1)})
            /\ ((s.start = None \/ Len(stdin) > s.start[1])
                    /\ (s.stop = None \/ Len(stdin) >= s.stop[1])) => ret

\* range 1:2 on three records: the second record alone, true, after a break
C4_Witness ==
    /\ AfterScan("RangeSearch") /\ s.start = Some(1) /\ s.stop = Some(2)
    /\ Len(stdin) = 3 /\ pulled = 3 /\ ret
    /\ stdout = Emitted({2})

(***************************************************************************)
(* C5. Multi-Label Search with reuse_matches false and N unique exact      *)
(* labels: when each label is accepted for exactly one record, the scan    *)
(* emits exactly those N records and returns true; when exactly one label  *)
(* is accepted for no record (the others for exactly one), the scan        *)
(* returns false and has emitted the N-1 records of the other labels.      *)
(***************************************************************************)
C5_MultiExact ==
    (AfterScan("MultipleLabelSearch") /\ ~s.reuse_matches) =>
        LET M == RequestedMatchers
            hits == UNION {Accepted(m) : m \in M}
        IN  /\ (\A m \in M : Cardinality(Accepted(m)) = 1) =>
                /\ ret
                /\ Cardinality(hits) = Cardinality(M)
                /\ stdout = Emitted(hits)
            /\ (\E absent \in M :
                    /\ Accepted(absent) = {}
                    /\ \A m \in M \ {absent} : Cardinality(Accepted(m)) = 1) =>
                /\ ~ret
                /\ Cardinality(hits) = Cardinality(M) - 1
                /\ stdout = Emitted(hits)

\* two labels, one of them absent, the other found after an unrelated record
C5_Witness ==
    /\ AfterScan("MultipleLabelSearch") /\ ~s.reuse_matches
    /\ Cardinality(RequestedMatchers) = 2
    /\ \E absent \in RequestedMatchers :
        /\ Accepted(absent) = {}
        /\ \A m \in RequestedMatchers \ {absent} : Accepted(m) = {2}
    /\ ~ret /\ stdout = Emitted({2})

(***************************************************************************)
(* C6. SingleLabelSearch.scan with reuse_match true emits exactly the k    *)
(* records its matcher accepts, in stream order and each once, and returns *)
(* true iff k >= 1.                                                        *)
(***************************************************************************)
C6_SingleReuse ==
    (AfterScan("SingleLabelSearch") /\ s.reuse_match) =>
        /\ stdout = Emitted(Accepted(s.match))
        /\ ret <=> Accepted(s.match) # {}

\* a pattern accepting the first and the third of three records
C6_Witness ==
    /\ AfterScan("SingleLabelSearch") /\ s.reuse_match
    /\ Len(stdin) = 3 /\ Accepted(s.match) = {1, 3}
    /\ ret /\ stdout = Emitted({1, 3})

(***************************************************************************)
(* C7. SingleLabelSearch.scan with ExactMatch(L) and reuse_match false:    *)
(* when L is the label of exactly one record it emits exactly that record  *)
(* and returns true; when no record has label L it emits nothing and       *)
(* returns false.                                                          *)
(***************************************************************************)
Labelled(L) == {i \in 1..Len(stdin) : stdin[i].header = L}

C7_SingleExact ==
    (AfterScan("SingleLabelSearch") /\ ~s.reuse_match /\ ~options.id_only) =>
        /\ Cardinality(Labelled(args[1])) = 1 => (ret /\ stdout = Emitted(Labelled(args[1])))
        /\ Labelled(args[1]) = {} => (~ret /\ stdout = <<>>)

\* the label is that of the second record only; a record follows it
C7_Witness ==
    /\ AfterScan("SingleLabelSearch") /\ ~s.reuse_match /\ ~options.id_only
    /\ Len(stdin) = 3 /\ Labelled(args[1]) = {2}
    /\ ret /\ stdout = Emitted({2})

(***************************************************************************)
(* C8. IndexSearch.scan with index idx on n records returns true iff       *)
(* idx < n; when true it has written exactly the record at position idx,   *)
(* when false it has written nothing.                                      *)
(***************************************************************************)
C8_IndexResult ==
    AfterScan("IndexSearch") =>
        /\ ret <=> s.idx < Len(stdin)
        /\ ret => stdout = Emitted({s.idx + 1})
        /\ ~ret => stdout = <<>>

\* index 1 on three records: the second record
C8_Witness ==
    /\ AfterScan("IndexSearch") /\ s.idx = 1 /\ Len(stdin) = 3
    /\ ret /\ stdout = Emitted({2})

(***************************************************************************)
(* C9. The process fails iff scan returned false and ignore_missing is not *)
(* set, and succeeds otherwise; the failure is raised only once scan has   *)
(* returned, never during it, and what scan wrote stays in the output.     *)
(***************************************************************************)
MissingMessage == "Some FASTA blocks are missing."

C9_FailureAfterScan ==
    /\ [](/\ pc \in {"scan", "returned"} => status = "running"
          /\ (pc = "exit" /\ s.type # "none") =>
                /\ status = MissingMessage <=> (~ret /\ ~options.ignore_missing)
                /\ status # MissingMessage => status = "ok")
    /\ [][/\ status' # status => pc \in {"main", "returned"}
          /\ status' = MissingMessage => pc = "returned"
          /\ pc = "returned" => stdout' = stdout]_vars

\* failed for a missing block, with a record already written
C9_Witness ==
    /\ pc = "exit" /\ s.type = "MultipleLabelSearch"
    /\ status = MissingMessage /\ ~ret /\ ~options.ignore_missing
    /\ stdout # <<>>

(***************************************************************************)
(* C10. parse_range rejects every '@START:STOP' with both bounds given and *)
(* STOP <= START, every negative START or index, and every non-numeric     *)
(* bound or index; a range it accepts with both bounds has                 *)
(* 0 <= start < stop, and an index it accepts is >= 0.                     *)
(***************************************************************************)
SpecText == SubSeq(args[1], 2, Len(args[1]))
ColonAt == CHOOSE i \in 1..Len(SpecText) : SpecText[i] = ":" /\ \A j \in 1..(i - 1) : SpecText[j] # ":"
StartText == SubSeq(SpecText, 1, ColonAt - 1)
StopText == SubSeq(SpecText, ColonAt + 1, Len(SpecText))
Rejected == s.spec[1] = "exit"

C10_ParseRange ==
    pc = "parsed" =>
        /\ s.spec[1] = "idx" => s.spec[2] >= 0
        /\ (s.spec[1] = "range" /\ s.spec[2] # None /\ s.spec[3] # None) =>
                (0 <= s.spec[2][1] /\ s.spec[2][1] < s.spec[3][1])
        /\ IF \A i \in 1..Len(SpecText) : SpecText[i] # ":"
           THEN (PyInt(SpecText) = None \/ PyInt(SpecText)[1] < 0) => Rejected
           ELSE /\ (StartText # <<>> /\ (PyInt(StartText) = None \/ PyInt(StartText)[1] < 0))
                    => Rejected
                /\ (StopText # <<>> /\ PyInt(StopText) = None) => Rejected
                /\ (PyInt(StartText) # None /\ PyInt(StopText) # None
                        /\ PyInt(StopText)[1] <= PyInt(StartText)[1]) => Rejected

\* '@2:2' is rejected
C10_Witness ==
    pc = "parsed" /\ args[1] = <<"@", "2", ":", "2">> /\ Rejected

(***************************************************************************)
(* C11. Id-only truncation affects matching only, not output: with id-only *)
(* the matcher is evaluated on the label cut at its first space or tab     *)
(* (the whole label when it has neither), without it on the whole label;   *)
(* the header written for a selected record is the full original label.    *)
(***************************************************************************)
IsSep(c) == c \in {" ", "\t"}

\* p is the label h up to, and without, its first space or tab
IsIdOf(p, h) ==
    /\ Len(p) <= Len(h) /\ p = SubSeq(h, 1, Len(p))
    /\ \A i \in 1..Len(p) : ~IsSep(p[i])
    /\ Len(p) = Len(h) \/ IsSep(h[Len(p) + 1])

\* the positions of the records the bare matcher of the command line accepts,
\* on the cut label with id-only and on the whole label without
Selected ==
    {i \in 1..Len(stdin) :
        \E v \in {SubSeq(stdin[i].header, 1, k) : k \in 0..Len(stdin[i].header)} :
            /\ IF options.id_only THEN IsIdOf(v, stdin[i].header) ELSE v = stdin[i].header
            /\ Match([s.match EXCEPT !.id_only = FALSE], v)}

First(S) == CHOOSE i \in S : \A j \in S : i <= j

C11_IdOnlyMatchingOnly ==
    AfterScan("SingleLabelSearch") =>
        /\ ret <=> Selected # {}
        /\ stdout = Emitted(IF s.reuse_match \/ Selected = {} THEN Selected
                            ELSE {First(Selected)})

\* ExactMatch("a") with id-only selects the record labelled "a b" and the
\* header written is "a b"
C11_Witness ==
    /\ AfterScan("SingleLabelSearch") /\ options.id_only /\ ~s.reuse_match
    /\ args[1] = <<"a">> /\ ~options.no_headers
    /\ stdin = <<Rec(<<"a", " ", "b">>, << <<"A", "C">> >>)>>
    /\ ret /\ stdout = <<">", "a", " ", "b", NL, "A", "C", NL>>

(***************************************************************************)
(* C12. FastaWriter.write appends, for the record selected, the line '>'   *)
(* followed by the label iff headers are printed, then every content line  *)
(* of the record, one per output line, in order and unmodified, and        *)
(* nothing else.                                                           *)
(***************************************************************************)
\* the lines of a text in which every line ends with a line break
RECURSIVE SplitLines(_)
SplitLines(text) ==
    IF text = <<>> THEN <<>>
    ELSE LET n == First({i \in 1..Len(text) : text[i] = NL})
         IN  <<SubSeq(text, 1, n - 1)>> \o SplitLines(SubSeq(text, n + 1, Len(text)))

C12_WriterOutput ==
    [][stdout' # stdout =>
        /\ Len(stdout') > Len(stdout)
        /\ SubSeq(stdout', 1, Len(stdout)) = stdout
        /\ stdout'[Len(stdout')] = NL
        /\ SplitLines(SubSeq(stdout', Len(stdout) + 1, Len(stdout'))) =
                (IF options.no_headers THEN <<>> ELSE << <<">">> \o NextRecord.header >>)
                \o NextRecord.lines]_vars

\* a record of two content lines written with its header suppressed
C12_Witness ==
    /\ options.no_headers /\ pulled = 1
    /\ stdin[1].lines = << <<"G">>, <<"T">> >>
    /\ stdout = <<"G", NL, "T", NL>>

(***************************************************************************)
(* C14. In Multi-Label Search with reuse_matches false a matcher leaves    *)
(* the live collection as soon as it selects a record: at every point of   *)
(* the scan each requested target has selected the first record it accepts *)
(* among those pulled and no other, the live matchers are those that       *)
(* accepted none, and once every target has selected a record the scan has *)
(* returned without pulling a record after the last one selected.          *)
(***************************************************************************)
Last(S) == CHOOSE i \in S : \A j \in S : i >= j

\* per requested matcher that accepts a pulled record, the first such record
FirstSelections ==
    {First(Accepted(m) \cap 1..pulled) :
        m \in {r \in RequestedMatchers : Accepted(r) \cap 1..pulled # {}}}

C14_ExactMatchersUsedOnce ==
    (s.type = "MultipleLabelSearch" /\ ~s.reuse_matches) =>
        /\ stdout = Emitted(FirstSelections)
        /\ {s.matches[i] : i \in 1..Len(s.matches)} =
                {m \in RequestedMatchers : Accepted(m) \cap 1..pulled = {}}
        /\ Len(s.matches) = 0 => (pc # "scan" /\ pulled = Last(FirstSelections))

\* both labels found in the first two records; the third record, whose label
\* is that of the first, is neither pulled nor written
C14_Witness ==
    /\ AfterScan("MultipleLabelSearch") /\ ~s.reuse_matches
    /\ Cardinality(RequestedMatchers) = 2
    /\ Len(stdin) = 3 /\ stdin[3] = stdin[1] /\ pulled = 2
    /\ ret /\ stdout = Emitted({1, 2})

(***************************************************************************)
(* C15. RangeSearch.scan with a finite stop e never pulls a record at a    *)
(* position greater than e; on a stream of more than e records it pulls    *)
(* exactly the records at positions 0..e, leaves the rest unread, does not *)
(* write the record at position e, and returns true.                       *)
(***************************************************************************)
C15_RangeStopsAtStop ==
    (s.type = "RangeSearch" /\ s.stop # None /\ s.stop[1] >= 0) =>
        /\ pulled <= s.stop[1] + 1
        /\ (pc = "returned" /\ Len(stdin) > s.stop[1]) =>
            /\ pulled = s.stop[1] + 1
            /\ ret
            /\ stdout = Emitted({i \in 1..s.stop[1] : InRange(i - 1)})

\* stop 1 on three records: two records pulled, the third left unread
C15_Witness ==
    /\ AfterScan("RangeSearch") /\ s.stop = Some(1) /\ s.start = None
    /\ Len(stdin) = 3 /\ pulled = 2 /\ ret
    /\ stdout = Emitted({1})

(***************************************************************************)
(* C16. SingleLabelSearch.scan with reuse_match false stops right after    *)
(* the first match: only the first accepted record is written and no       *)
(* record after it is pulled. IndexSearch.scan pulls exactly idx+1 records *)
(* when the record at idx exists.                                          *)
(***************************************************************************)
C16_StopAfterFirstMatch ==
    /\ (AfterScan("SingleLabelSearch") /\ ~s.reuse_match /\ Accepted(s.match) # {}) =>
        /\ pulled = First(Accepted(s.match))
        /\ stdout = Emitted({First(Accepted(s.match))})
    /\ (AfterScan("IndexSearch") /\ s.idx < Len(stdin)) => pulled = s.idx + 1

\* the second and third records are accepted: two records pulled, one written
C16_Witness ==
    /\ AfterScan("SingleLabelSearch") /\ ~s.reuse_match
    /\ Accepted(s.match) = {2, 3} /\ pulled = 2
    /\ stdout = Emitted({2})

(***************************************************************************)
(* C18. Whatever the strategy, scan returns false only once the reader is  *)
(* exhausted: a scan that stopped before the end of the stream returned    *)
(* true.                                                                   *)
(***************************************************************************)
C18_FalseOnlyWhenExhausted ==
    (pc = "returned" /\ ~ret) => pulled = Len(stdin)

\* a not-found outcome: every record of a non-empty stream was pulled
C18_Witness ==
    /\ pc = "returned" /\ s.type = "SingleLabelSearch" /\ ~ret
    /\ Len(stdin) = 3 /\ pulled = 3

(***************************************************************************)
(* C17. Every configuration error (wrong argument count, --regexp with     *)
(* --word-regexp, a regex flag with an '@' argument, invalid index or      *)
(* range bounds, a label file unreadable, empty or with a repeated label)  *)
(* ends the process with an error before any scanning: no record has been  *)
(* pulled and nothing has been written. No other command line ends with    *)
(* such an error.                                                          *)
(***************************************************************************)
InvalidBounds ==
    IF \A i \in 1..Len(SpecText) : SpecText[i] # ":"
    THEN PyInt(SpecText) = None \/ PyInt(SpecText)[1] < 0
    ELSE \/ StartText # <<>> /\ (PyInt(StartText) = None \/ PyInt(StartText)[1] < 0)
         \/ StopText # <<>> /\ PyInt(StopText) = None
         \/ PyInt(StartText) # None /\ PyInt(StopText) # None
                /\ PyInt(StopText)[1] <= PyInt(StartText)[1]

ConfigurationError ==
    \/ Len(args) # 1
    \/ options.regexp /\ options.word_regexp
    \/ LET at == args[1] # <<>> /\ args[1][1] = "@"
       IN  \/ at /\ (options.regexp \/ options.word_regexp)
           \/ at /\ InvalidBounds
           \/ ~at /\ options.from_file
                /\ \/ ~fs.readable
                   \/ fs.lines = <<>>
                   \/ \E i, j \in 1..Len(fs.lines) : i < j /\ fs.lines[i] = fs.lines[j]

ExitedOnConfiguration == status \notin {"running", "ok", MissingMessage}

C17_ConfigurationErrorsBeforeScan ==
    /\ (pc # "main" /\ ConfigurationError) => (pc = "exit" /\ ExitedOnConfiguration)
    /\ ExitedOnConfiguration =>
        /\ ConfigurationError
        /\ pc = "exit" /\ s = NoStrategy
        /\ pulled = 0 /\ ~drained /\ stdout = <<>>

\* a repeated label in the label file, on a stream of three records
C17_Witness ==
    /\ pc = "exit" /\ status = "Duplicated label"
    /\ Len(stdin) = 3 /\ pulled = 0 /\ stdout = <<>>

(***************************************************************************)
(* C19. At every point of every scan what has been written is the          *)
(* rendering of a subsequence of the records pulled so far, in stream      *)
(* order: each step pulls at most the one next record, and writes at most  *)
(* once, the record it has just pulled, even when several matchers of a    *)
(* Multi-Label Search accept it.                                           *)
(***************************************************************************)
C19_WrittenSubsequenceOfPulled ==
    /\ [](/\ pulled <= Len(stdin)
          /\ \E S \in SUBSET (1..pulled) : stdout = Emitted(S))
    /\ [][/\ pulled' = pulled \/ pulled' = pulled + 1
          /\ stdout' # stdout =>
                /\ pulled' = pulled + 1
                /\ stdout' = stdout \o FastaWriterWrite(~options.no_headers,
                                        stdin[pulled + 1].header, stdin[pulled + 1].lines)]_vars

\* a record two patterns of the label file accept, written once
C19_Witness ==
    /\ s.type = "MultipleLabelSearch" /\ s.reuse_matches
    /\ pulled = 1 /\ stdout = Emitted({1})
    /\ Cardinality({m \in RequestedMatchers : 1 \in Accepted(m)}) >= 2

(***************************************************************************)
(* C20. The outcome of a Multi-Label Search does not depend on the order   *)
(* of its matcher collection: whatever the order in which the label set is *)
(* iterated, in exact mode and in regex mode, the scan writes the same     *)
(* records and returns the same result. Stated as the claim has it; in     *)
(* regex mode the result depends on which of two patterns accepting the    *)
(* same record comes first.                                                *)
(***************************************************************************)
C20_OrderIndependent ==
    AfterScan("MultipleLabelSearch") =>
        \A order \in Orderings(RequestedMatchers) :
            MultiScan(order, [i \in 1..Len(order) |-> FALSE], s.reuse_matches,
                      ~options.no_headers, stdin)
                = [stdout |-> stdout, ret |-> ret]

====
